---- MODULE Spec2Model ----
(***************************************************************************)
(* Model of the Logger library: the JVLogger wrapper (construction with    *)
(* the optional single-instance lock, handler setup, close / __exit__),    *)
(* the global exception hooks (sys, threading, asyncio) and the crash      *)
(* recorder dump_last_crash writing last_crash.log.                        *)
(***************************************************************************)
EXTENDS Integers, Sequences, FiniteSets, TLC

\* ---------------------------------------------------------------- bounds
MaxInst == 2          \* JVLogger objects ever constructed
MaxClose == 2         \* close() calls counted on one object
MaxFaults == 2        \* uncaught faults raised in the whole run
MaxFrames == 2        \* lines of a rendered traceback

\* ------------------------------------------------------------- constants
None == "None"
DefaultName == "script"                 \* Path(sys.argv[0]).stem
NameArgs == {None, "app"}               \* the name argument
MutexArgs == {None, "app"}               \* the mutex_name argument
Names == {DefaultName, "app"}
LockIds == {DefaultName, "app"}
Levels == {"DEBUG", "INFO"}             \* the level argument
Inst == 1..MaxInst
Threads == {"t1", "t2"}
Ctx == {"main", "loop"} \cup Threads    \* execution contexts
\* exception classes: KIsubclass is a class derived from KeyboardInterrupt
Interrupts == {"KeyboardInterrupt", "KIsubclass"}
ExcKinds == {"RuntimeError"} \cup Interrupts
IOErrors == {"OSError", "UnicodeEncodeError"}

VARIABLES
    insts,       \* JVLogger objects: their attributes and life cycle
    loggers,     \* logging's registry: name -> logger (level, handlers)
    held,        \* the platform locks: lock id -> held?
    sysHook,     \* sys.excepthook
    threadHook,  \* threading.excepthook
    loopHandler, \* exception handler of the default event loop
    loopState,   \* the default event loop: "none", "idle", "running"
    faults,      \* the uncaught faults raised so far and what became of them
    pc,          \* position of each context inside dump_last_crash
    cur,         \* the fault a context is reporting
    crashFile,   \* content of last_crash.log ("absent" before it exists)
    hookRaised,  \* contexts whose capture point let an exception escape
    setupFailed, \* handler construction failed with hooks requested
    lastLevel    \* the level argument of the latest construction

vars == <<insts, loggers, held, sysHook, threadHook, loopHandler, loopState,
          faults, pc, cur, crashFile, hookRaised, setupFailed, lastLevel>>

loggerVars == <<insts, loggers, held, setupFailed, lastLevel>>
hookVars == <<sysHook, threadHook, loopHandler>>
faultVars == <<faults, pc, cur, crashFile, hookRaised>>

\* ------------------------------------------------------ logging registry
ThreeHandlers == <<"console", "file", "json">>

NewLogger(n) == [name |-> n, level |-> "NOTSET", handlers |-> <<>>,
                 propagate |-> TRUE]

\* `if not self.logger.handlers:`
NeedsSetup(hs) == hs = <<>>

\* dictConfig(config): the logger named in the config gets the configured
\* handlers in place of whatever it had
SetupLoggingFromJson(hs) == ThreeHandlers

\* iterating the live list while removing from it skips every other handler
HandlersAfterCloseLiveList(hs) == [k \in 1..(Len(hs) \div 2) |-> hs[2 * k]]

\* close(): `for handler in list(self.logger.handlers): ... removeHandler`
HandlersAfterClose(hs) == <<>>

\* ------------------------------------------------------------- the lock
\* create_lock(lock_id) gives a lock object for the id, or no object
CreateLockOutcomes == {"lock", None}

\* lock.acquire(): non-blocking, TRUE iff the id was free
AcquireOk(id) == ~held[id]

\* -------------------------------------------------------------- hooks
\* `exc_type is KeyboardInterrupt` in place of issubclass
IsExactlyKeyboardInterrupt(k) == k = "KeyboardInterrupt"

\* issubclass(exc_type, KeyboardInterrupt)
IsKeyboardInterrupt(k) == k \in Interrupts

\* install_global_exception_handlers()
InstalledLoopHandler(state, handler) ==
    IF state = "idle" THEN "asyncio_exception_handler" ELSE handler

Install ==
    /\ sysHook' = "excepthook_logger"
    /\ threadHook' = "thread_excepthook"
    /\ loopHandler' = InstalledLoopHandler(loopState, loopHandler)

\* ------------------------------------------------------------------ Init
\* st: "unborn", "running", "closed", or the exception __init__ raised (the
\* object is then unreachable and its attributes are not kept);
\* lockId: the id asked of create_lock (None without single_instance);
\* lock: self._lock; closes, releases: close() and release() calls made;
\* lastClose: how the latest close() ended; inWith: inside a with-block
NoInst == [st |-> "unborn", name |-> None, lockId |-> None, lock |-> None,
           closes |-> 0, releases |-> 0, lastClose |-> None, inWith |-> FALSE]

Init ==
    /\ insts = [i \in Inst |-> NoInst]
    /\ loggers = [n \in Names |-> NewLogger(n)]
    /\ held = [l \in LockIds |-> FALSE]
    /\ sysHook = "default"
    /\ threadHook = "default"
    /\ loopHandler = "default"
    /\ loopState = "none"
    /\ faults = <<>>
    /\ pc = [c \in Ctx |-> "idle"]
    /\ cur = [c \in Ctx |-> 0]
    /\ crashFile = "absent"
    /\ hookRaised = {}
    /\ setupFailed = FALSE
    /\ lastLevel = None

\* --------------------------------------------------- JVLogger.__init__
BaseName(name) == IF name = None THEN DefaultName ELSE name

LockIdOf(name, mutex) == IF mutex = None THEN BaseName(name) ELSE mutex

\* The instance lock is taken only when create_lock gave an object
\* (`if lock is not None:`); acquire() is then attempted.
WantsAcquire(single, lockObj) == single /\ lockObj # None

Construct(i, name, level, install, single, mutex, lockObj, setupOk) ==
    LET base == BaseName(name)
        id == LockIdOf(name, mutex)
        tries == WantsAcquire(single, lockObj)
        refused == tries /\ ~AcquireOk(id)
        needs == NeedsSetup(loggers[base].handlers)
        configured == [loggers[base] EXCEPT !.level = level,
                                            !.propagate = FALSE]
    IN  /\ insts[i].st = "unborn"
        /\ \A j \in Inst : j < i => insts[j].st # "unborn"
        /\ pc["main"] = "idle"
        /\ single \/ (mutex = None /\ lockObj = None)
        /\ needs \/ setupOk
        /\ lastLevel' = level
        /\ IF refused
           THEN \* raise SingleInstanceError("Another instance is already running")
                /\ insts' = [insts EXCEPT ![i].st = "SingleInstanceError"]
                /\ UNCHANGED <<loggers, held, setupFailed>>
                /\ UNCHANGED hookVars
           ELSE /\ held' = IF tries THEN [held EXCEPT ![id] = TRUE] ELSE held
                /\ IF needs /\ ~setupOk
                   THEN \* _setup_logging_from_json raises; nothing after it runs
                        /\ insts' = [insts EXCEPT ![i].st = "SetupError"]
                        /\ loggers' = [loggers EXCEPT ![base] = configured]
                        /\ setupFailed' = (setupFailed \/ install)
                        /\ UNCHANGED hookVars
                   ELSE /\ insts' = [insts EXCEPT ![i] =
                               [NoInst EXCEPT !.st = "running",
                                   !.name = base,
                                   !.lockId = IF single THEN id ELSE None,
                                   !.lock = IF tries THEN id ELSE None]]
                        /\ loggers' = [loggers EXCEPT ![base] =
                               [configured EXCEPT !.handlers =
                                   IF needs THEN SetupLoggingFromJson(@) ELSE @]]
                        /\ UNCHANGED setupFailed
                        /\ IF install THEN Install ELSE UNCHANGED hookVars
        /\ UNCHANGED <<loopState, faultVars>>

\* -------------------------------------------- JVLogger.close / __exit__
\* `self._lock = None` placed after release() instead of in `finally`
LockKeptWhenReleaseRaises(lock, raised) == IF raised THEN lock ELSE None

\* `try: self._lock.release()  finally: self._lock = None`
LockAfterRelease(lock, raised) == None

\* release() frees the id; when it raises the id may or may not be freed
CloseBody(i, relRaises, freed) ==
    LET me == insts[i]
        has == me.lock # None
        raised == has /\ relRaises
    IN  /\ me.st \in {"running", "closed"}
        /\ pc["main"] = "idle"
        /\ me.releases <= MaxClose
        /\ has \/ (~relRaises /\ freed)
        /\ relRaises \/ freed
        /\ loggers' = [loggers EXCEPT ![me.name].handlers = HandlersAfterClose(@)]
        /\ held' = IF has /\ freed THEN [held EXCEPT ![me.lock] = FALSE] ELSE held
        /\ insts' = [insts EXCEPT ![i] =
               [me EXCEPT !.st = "closed",
                          !.closes = IF @ < MaxClose THEN @ + 1 ELSE @,
                          !.releases = IF has THEN @ + 1 ELSE @,
                          !.lock = IF has THEN LockAfterRelease(@, raised) ELSE @,
                          !.lastClose = IF raised THEN "raised" ELSE "returned",
                          !.inWith = FALSE]]
        /\ UNCHANGED <<setupFailed, lastLevel, loopState, faultVars>>
        /\ UNCHANGED hookVars

Close(i, relRaises, freed) ==
    /\ ~insts[i].inWith
    /\ CloseBody(i, relRaises, freed)

\* `with JVLogger(...) as log:`
Enter(i) ==
    /\ insts[i].st = "running"
    /\ ~insts[i].inWith
    /\ insts' = [insts EXCEPT ![i].inWith = TRUE]
    /\ UNCHANGED <<loggers, held, setupFailed, lastLevel, loopState, faultVars>>
    /\ UNCHANGED hookVars

Exit(i, relRaises, freed) ==
    /\ insts[i].inWith
    /\ CloseBody(i, relRaises, freed)

\* a direct call of install_global_exception_handlers()
InstallHooks ==
    /\ Install
    /\ UNCHANGED <<loggerVars, loopState, faultVars>>

\* ------------------------------------------------------ the event loop
LoopCreate ==
    /\ loopState = "none"
    /\ loopState' = "idle"
    /\ UNCHANGED <<loggerVars, hookVars, faultVars>>

LoopRun ==
    /\ loopState = "idle"
    /\ loopState' = "running"
    /\ UNCHANGED <<loggerVars, hookVars, faultVars>>

LoopStop ==
    /\ loopState = "running"
    /\ pc["loop"] = "idle"
    /\ loopState' = "idle"
    /\ UNCHANGED <<loggerVars, hookVars, faultVars>>

\* ------------------------------------------------------ dump_last_crash
\* traceback.print_exception(...) rendered for fault f
Report(f) == [k \in 1..faults[f].frames |-> f]

\* open(LAST_CRASH_FILE, "w"): the file is created or truncated in place
OpenForWrite(content) == <<>>

\* the buffered text is written from the start of the file the handle
\* opened; bytes another handle wrote past its end stay where they are
WriteAtStart(content, text) ==
    text \o SubSeq(content, Len(text) + 1, Len(content))

\* the classes derived from Exception
IsException(e) == e \notin Interrupts \cup {"SystemExit"}

\* `except OSError: pass`
DumpCatchesOSErrorOnly(e) == e = "OSError"

\* `except Exception: pass`
DumpCatches(e) == IsException(e)

\* an uncaught fault ends the main path or the thread it escaped from; the
\* event loop goes on after reporting a failed task
After(c) == IF c = "loop" THEN "idle" ELSE "done"

Leave(c, e) ==
    /\ pc' = [pc EXCEPT ![c] = After(c)]
    /\ hookRaised' = IF DumpCatches(e) THEN hookRaised ELSE hookRaised \cup {c}
    /\ faults' = [faults EXCEPT ![cur[c]].ioerr = e]

DumpOpen(c, e) ==
    /\ pc[c] = "open"
    /\ IF e = None
       THEN /\ crashFile' = OpenForWrite(crashFile)
            /\ pc' = [pc EXCEPT ![c] = "flush"]
            /\ UNCHANGED <<hookRaised, faults>>
       ELSE /\ Leave(c, e)
            /\ UNCHANGED crashFile
    /\ UNCHANGED <<loggerVars, hookVars, loopState, cur>>

DumpFlush(c, e) ==
    /\ pc[c] = "flush"
    /\ IF e = None
       THEN /\ crashFile' = WriteAtStart(crashFile, Report(cur[c]))
            /\ pc' = [pc EXCEPT ![c] = After(c)]
            /\ UNCHANGED <<hookRaised, faults>>
       ELSE /\ Leave(c, e)
            /\ UNCHANGED crashFile
    /\ UNCHANGED <<loggerVars, hookVars, loopState, cur>>

\* ------------------------------------------------------ capture points
Handled(by, log, dump, fwd) == [by |-> by, log |-> log, dump |-> dump, fwd |-> fwd]

DefaultHandling == Handled("default", <<>>, FALSE, TRUE)

\* excepthook_logger(exc_type, exc_value, exc_traceback)
ExcepthookLogger(kind) ==
    IF IsKeyboardInterrupt(kind)
    THEN Handled("excepthook_logger", <<>>, FALSE, TRUE)
    ELSE Handled("excepthook_logger", <<"CRITICAL">>, TRUE, FALSE)

\* thread_excepthook(args)
ThreadExcepthook(kind) ==
    IF IsKeyboardInterrupt(kind)
    THEN Handled("thread_excepthook", <<>>, FALSE, FALSE)
    ELSE Handled("thread_excepthook", <<"CRITICAL">>, TRUE, FALSE)

\* asyncio_exception_handler(loop, context); kind is context.get("exception")
AsyncioExceptionHandler(kind) ==
    IF kind # None
    THEN Handled("asyncio_exception_handler", <<"ERROR">>, TRUE, FALSE)
    ELSE Handled("asyncio_exception_handler", <<"ERROR">>, FALSE, FALSE)

\* what the interpreter calls for an uncaught fault of context c
Dispatch(c, kind) ==
    IF c = "main"
    THEN IF sysHook = "excepthook_logger" THEN ExcepthookLogger(kind)
         ELSE DefaultHandling
    ELSE IF c \in Threads
    THEN IF threadHook = "thread_excepthook" THEN ThreadExcepthook(kind)
         ELSE DefaultHandling
    ELSE IF loopHandler = "asyncio_exception_handler"
         THEN AsyncioExceptionHandler(kind)
         ELSE DefaultHandling

Raise(c, kind, n) ==
    LET h == Dispatch(c, kind)
        f == [ctx |-> c, kind |-> kind, frames |-> n, by |-> h.by,
              log |-> h.log, dumps |-> IF h.dump THEN 1 ELSE 0,
              fwd |-> h.fwd, late |-> setupFailed, ioerr |-> None]
    IN  /\ Len(faults) < MaxFaults
        /\ pc[c] = "idle"
        /\ faults' = Append(faults, f)
        /\ cur' = [cur EXCEPT ![c] = Len(faults) + 1]
        /\ pc' = [pc EXCEPT ![c] = IF h.dump THEN "open" ELSE After(c)]
        /\ UNCHANGED <<loggerVars, hookVars, loopState, crashFile, hookRaised>>

MainFault(kind, n) == Raise("main", kind, n)

ThreadFault(t, kind, n) == Raise(t, kind, n)

\* the running loop reports a failed task; kind = None: no exception object
TaskFault(kind, n) ==
    /\ loopState = "running"
    /\ Raise("loop", kind, n)

\* ------------------------------------------------------------------ Next
Next ==
    \/ \E i \in Inst, name \in NameArgs, level \in Levels, install \in BOOLEAN,
          single \in BOOLEAN, mutex \in MutexArgs,
          lockObj \in CreateLockOutcomes, setupOk \in BOOLEAN :
          Construct(i, name, level, install, single, mutex, lockObj, setupOk)
    \/ \E i \in Inst, relRaises \in BOOLEAN, freed \in BOOLEAN :
          Close(i, relRaises, freed)
    \/ \E i \in Inst : Enter(i)
    \/ \E i \in Inst, relRaises \in BOOLEAN, freed \in BOOLEAN :
          Exit(i, relRaises, freed)
    \/ InstallHooks
    \/ LoopCreate
    \/ LoopRun
    \/ LoopStop
    \/ \E kind \in ExcKinds, n \in 1..MaxFrames : MainFault(kind, n)
    \/ \E t \in Threads, kind \in ExcKinds, n \in 1..MaxFrames : ThreadFault(t, kind, n)
    \/ \E kind \in {"RuntimeError", None}, n \in 1..MaxFrames : TaskFault(kind, n)
    \/ \E c \in Ctx, e \in {None} \cup IOErrors : DumpOpen(c, e)
    \/ \E c \in Ctx, e \in {None} \cup IOErrors : DumpFlush(c, e)

Spec == Init /\ [][Next]_vars

\* Logger objects alone: construction, close and the with-statement
NextLogger ==
    \/ \E i \in Inst, name \in NameArgs, level \in Levels, install \in BOOLEAN,
          single \in BOOLEAN, mutex \in MutexArgs,
          lockObj \in CreateLockOutcomes, setupOk \in BOOLEAN :
          Construct(i, name, level, install, single, mutex, lockObj, setupOk)
    \/ \E i \in Inst, relRaises \in BOOLEAN, freed \in BOOLEAN :
          Close(i, relRaises, freed)
    \/ \E i \in Inst : Enter(i)
    \/ \E i \in Inst, relRaises \in BOOLEAN, freed \in BOOLEAN :
          Exit(i, relRaises, freed)

SpecLogger == Init /\ [][NextLogger]_vars

\* the exception hooks alone: installation, the event loop, faults, reports
NextHooks ==
    \/ InstallHooks
    \/ LoopCreate
    \/ LoopRun
    \/ LoopStop
    \/ \E kind \in ExcKinds, n \in 1..MaxFrames : MainFault(kind, n)
    \/ \E t \in Threads, kind \in ExcKinds, n \in 1..MaxFrames : ThreadFault(t, kind, n)
    \/ \E kind \in {"RuntimeError", None}, n \in 1..MaxFrames : TaskFault(kind, n)
    \/ \E c \in Ctx, e \in {None} \cup IOErrors : DumpOpen(c, e)
    \/ \E c \in Ctx, e \in {None} \cup IOErrors : DumpFlush(c, e)

SpecHooks == Init /\ [][NextHooks]_vars

\* program start: Logger objects are built on the main path, which may then
\* let a fault escape
NextStartup ==
    \/ \E i \in Inst, name \in NameArgs, level \in Levels, install \in BOOLEAN,
          single \in BOOLEAN, mutex \in MutexArgs,
          lockObj \in CreateLockOutcomes, setupOk \in BOOLEAN :
          Construct(i, name, level, install, single, mutex, lockObj, setupOk)
    \/ \E kind \in ExcKinds, n \in 1..MaxFrames : MainFault(kind, n)
    \/ \E e \in {None} \cup IOErrors : DumpOpen("main", e)
    \/ \E e \in {None} \cup IOErrors : DumpFlush("main", e)

SpecStartup == Init /\ [][NextStartup]_vars

\* ==================================================================
\* Properties
\* ==================================================================
Running(i) == insts[i].st = "running"

\* a fault one of the three installed capture points handled, which is not
\* a user interrupt and carries an exception object
ActualFault(f) ==
    /\ faults[f].by # "default"
    /\ faults[f].kind \notin Interrupts
    /\ faults[f].kind # None

Criticals(f) ==
    Cardinality({k \in DOMAIN faults[f].log : faults[f].log[k] = "CRITICAL"})

\* C1: at any time at most one running Logger built with
\* single_instance=True holds a given lock name, whatever create_lock()
\* returned (a lock object or None).
C1_AtMostOneRunningPerLockName ==
    \A i, j \in Inst :
        (i # j /\ Running(i) /\ Running(j) /\ insts[i].lockId # None)
            => insts[i].lockId # insts[j].lockId

\* C2: a construction with single_instance=True that does not obtain the
\* lock never yields a usable Logger: every running Logger that asked for
\* the lock holds it (otherwise __init__ raised).
C2_LockFailureIsRaised ==
    \A i \in Inst :
        (Running(i) /\ insts[i].lockId # None) => insts[i].lock = insts[i].lockId

\* C3: every uncaught fault that is not a user interrupt, handled by the
\* capture point of any of the three contexts, is logged at CRITICAL and
\* passed to dump_last_crash.
C3_FaultLoggedCriticalAndRecorded ==
    \A f \in DOMAIN faults :
        ActualFault(f) =>
            (faults[f].log = <<"CRITICAL">> /\ faults[f].dumps = 1)

\* C4: a KeyboardInterrupt (or a subclass) reaching excepthook_logger on the
\* main path gives no log entry, no call of dump_last_crash and no write of
\* the crash file, and is forwarded to sys.__excepthook__.
C4_InterruptNotReported ==
    \A f \in DOMAIN faults :
        (/\ faults[f].ctx = "main"
         /\ faults[f].by = "excepthook_logger"
         /\ faults[f].kind \in Interrupts)
            => /\ faults[f].log = <<>>
               /\ faults[f].dumps = 0
               /\ faults[f].fwd
               /\ cur["main"] = f => pc["main"] \notin {"open", "flush"}
               /\ crashFile = "absent" \/ \A k \in DOMAIN crashFile : crashFile[k] # f

C4_Witness ==
    \E f \in DOMAIN faults :
        /\ faults[f].ctx = "main"
        /\ faults[f].by = "excepthook_logger"
        /\ faults[f].kind = "KIsubclass"
        /\ pc["main"] = "done"

\* C5: however many times the hooks were installed, the registered handlers
\* are those of a single installation and each actual fault gives exactly
\* one CRITICAL log entry and one call of the crash recorder.
C5_InstalledOnceOneCriticalPerFault ==
    /\ sysHook # "default" =>
          /\ sysHook = "excepthook_logger"
          /\ threadHook = "thread_excepthook"
          /\ loopHandler \in {"default", "asyncio_exception_handler"}
    /\ \A f \in DOMAIN faults :
          ActualFault(f) => (Criticals(f) = 1 /\ faults[f].dumps = 1)

\* C6: whatever the interleaving of two dump_last_crash calls, the crash
\* file, whenever it exists, holds one complete report: never a partial
\* report and never a mix of two.
C6_CrashFileIsOneCompleteReport ==
    crashFile = "absent" \/ \E f \in DOMAIN faults : crashFile = Report(f)

\* C7: an error while opening or writing the crash file never leaves
\* dump_last_crash: the capture point that called it goes on normally and
\* no exception escapes it (which would make a second fault to report).
C7_DumpErrorSwallowed ==
    /\ hookRaised = {}
    /\ \A f \in DOMAIN faults :
          faults[f].ioerr # None =>
              /\ pc[faults[f].ctx] = After(faults[f].ctx) \/ cur[faults[f].ctx] # f
              /\ faults[f].dumps = 1

C7_Witness ==
    \E f, g \in DOMAIN faults :
        /\ faults[f].ioerr = "UnicodeEncodeError"
        /\ faults[g].ioerr = "OSError"
        /\ faults[f].ctx \in Threads

\* C8: for a Logger that acquired the lock, the first close() calls
\* release() once and leaves _lock None even when release() raised; every
\* later close() calls release() no more and returns normally.
C8_ReleaseExactlyOnce ==
    [][\A i \in Inst :
         LET a == insts[i]
             b == insts'[i]
         IN  /\ (a.st = "running" /\ b.st = "closed") =>
                    /\ b.lock = None
                    /\ b.releases = IF a.lock # None THEN 1 ELSE 0
             /\ a.st = "closed" =>
                    /\ b.st = "closed"
                    /\ b.lock = None
                    /\ b.releases = a.releases
                    /\ b # a => b.lastClose = "returned"
             /\ (b.st = "closed" /\ b.closes >= 2) => b.lastClose = "returned"]_vars

C8_Witness ==
    \E i \in Inst :
        /\ insts[i].st = "closed"
        /\ insts[i].lockId # None
        /\ insts[i].releases = 1
        /\ insts[i].closes >= 2
        /\ insts[i].lock = None

\* C9: when handler construction failed in a construction that asked for
\* the exception hooks, a later uncaught fault (not an interrupt) is still
\* passed to the crash recorder.
C9_FaultAfterFailedSetupRecorded ==
    \A f \in DOMAIN faults :
        (faults[f].late /\ faults[f].kind \notin Interrupts)
            => faults[f].dumps >= 1

\* C10: a successful construction leaves the logger of that name with the
\* requested level and exactly the three handlers, also when the logger
\* already had them; close() leaves it with none, and only a construction
\* for that name gives it handlers again.
C10_ThreeHandlers ==
    [][/\ \A i \in Inst :
            LET a == insts[i]
                b == insts'[i]
            IN  /\ (a.st = "unborn" /\ b.st = "running") =>
                       /\ loggers'[b.name].name = b.name
                       /\ loggers'[b.name].level = lastLevel'
                       /\ loggers'[b.name].handlers = ThreeHandlers
                /\ (a.st = "running" /\ b.st = "closed") =>
                       loggers'[a.name].handlers = <<>>
                /\ (a.st = "closed" /\ b # a) =>
                       loggers'[a.name].handlers = <<>>
       /\ \A n \in Names :
            /\ loggers'[n].handlers \in {<<>>, ThreeHandlers}
            /\ (loggers[n].handlers = <<>> /\ loggers'[n].handlers # <<>>) =>
                   \E i \in Inst : /\ insts[i].st = "unborn"
                                   /\ insts'[i].st = "running"
                                   /\ insts'[i].name = n]_vars

C10_Witness ==
    \E i, j \in Inst :
        /\ insts[i].st = "closed"
        /\ Running(j)
        /\ insts[j].name = insts[i].name
        /\ loggers[insts[j].name].handlers = ThreeHandlers
        /\ loggers[insts[j].name].level = "DEBUG"

====
